---- MODULE Spec2Model ----
(***************************************************************************)
(* Lendability engine: the decision aggregator (decide), the metric        *)
(* deriver (computeMetrics), the rule predicates (rules.ts), the           *)
(* evaluator (evaluate / evaluateDetailed), and the rule-catalog form:     *)
(* the standard SME rules (smeRules) and the AssessmentEngine.             *)
(*                                                                         *)
(* JavaScript values are modelled as tagged records:                       *)
(*   [t |-> "undef"], [t |-> "null"], [t |-> "nan"],                       *)
(*   [t |-> "str", s |-> STRING], [t |-> "bool", b |-> BOOLEAN],           *)
(*   [t |-> "num", n |-> Int, d |-> Int]   (the rational n/d, d > 0)       *)
(* Objects are TLA+ records without a field t; a property that is absent   *)
(* reads as undefined, so an object lists it with the value Undefined.     *)
(*                                                                         *)
(* Numbers are exact rationals.  The amounts of the model are integers and *)
(* the limits decimal fractions, for which the double-precision quotients  *)
(* of the code compare with the limits as the exact quotients do.          *)
(* A dotted path ('metrics.ltc') is written split, <<"metrics", "ltc">>.   *)
(***************************************************************************)
EXTENDS Integers, Sequences, FiniteSets, TLC

VARIABLES failures, decision, input, bands, output, thValue, thLimit, thResult,
          log, rules, scheme, assessment, clock, supplied, returned

vars ==
  <<failures, decision, input, bands, output, thValue, thLimit, thResult,
    log, rules, scheme, assessment, clock, supplied, returned>>

(***************************************************************************)
(* Bounds                                                                  *)
(***************************************************************************)
\* longest failure list handed to decide
MaxFailures == 3

\* longest custom rule set an engine is built from
MaxRules == 3

\* most calls of evaluate, or of assess, in one run
MaxCalls == 3

\* most changes a caller makes to an array an accessor handed out
MaxMutations == 2

\* largest numerator of the values and limits handed to thresholdMin/Max
MaxThreshold == 4

(***************************************************************************)
(* JavaScript values                                                       *)
(***************************************************************************)
Undefined == [t |-> "undef"]

Null == [t |-> "null"]

NaN == [t |-> "nan"]

\* a non-empty string; none of the strings of the model reads as a number
Str(s) == [t |-> "str", s |-> s]

Bool(b) == [t |-> "bool", b |-> b]

True == Bool(TRUE)

False == Bool(FALSE)

Num(n, d) == [t |-> "num", n |-> n, d |-> d]

\* typeof v === 'number' (NaN is a number)
IsNumber(v) == v.t \in {"num", "nan"}

\* a >= b on JS numbers; every comparison with NaN is false
Ge(a, b) == a.t = "num" /\ b.t = "num" /\ a.n * b.d >= b.n * a.d

\* a <= b on JS numbers
Le(a, b) == a.t = "num" /\ b.t = "num" /\ a.n * b.d <= b.n * a.d

\* a > 0 on JS numbers
GtZero(a) == a.t = "num" /\ a.n > 0

\* a - b on JS numbers
Sub(a, b) ==
  IF a.t = "num" /\ b.t = "num" THEN Num(a.n * b.d - b.n * a.d, a.d * b.d) ELSE NaN

\* a / b on JS numbers, used only where b > 0 has been tested
Div(a, b) ==
  IF a.t = "num" /\ b.t = "num" THEN Num(a.n * b.d, a.d * b.n) ELSE NaN

\* Number(v ?? 0): undefined and null give 0, a non-numeric string NaN
Number(v) ==
  CASE v.t \in {"undef", "null"} -> Num(0, 1)
    [] v.t = "num" -> v
    [] v.t = "bool" -> IF v.b THEN Num(1, 1) ELSE Num(0, 1)
    [] OTHER -> NaN

\* primitive values carry the tag t, objects and rule failures do not
IsPrimitive(o) == "t" \in DOMAIN o

\* JavaScript truthiness
Truthy(o) ==
  IF ~IsPrimitive(o) THEN TRUE
  ELSE CASE o.t = "num" -> o.n # 0
         [] o.t = "bool" -> o.b
         [] o.t = "str" -> o.s # ""
         [] OTHER -> FALSE

\* o[k] for a truthy o: a property of an object, undefined on a primitive
Prop(o, k) ==
  IF ~IsPrimitive(o) /\ k \in DOMAIN o THEN o[k] ELSE Undefined

\* o?.k
Opt(o, k) ==
  IF IsPrimitive(o) /\ o.t \in {"undef", "null"} THEN Undefined ELSE Prop(o, k)

\* o ?? {} followed by .k
OrEmpty(o, k) == Opt(o, k)

(***************************************************************************)
(* Rule failures (types.ts RuleFailure)                                    *)
(***************************************************************************)
\* a RuleFailure object; status is "GATING" or "undefined" (not set),
\* evidence is a sequence of <<path, value>> pairs (empty when not set)
RuleFailure(ruleId, severity, status, category, reason, fix, evidence) ==
  [kind |-> "failure", ruleId |-> ruleId, severity |-> severity,
   status |-> status, category |-> category, reason |-> reason, fix |-> fix,
   evidence |-> evidence, items |-> <<>>]

\* an array that sits in the failure list as one element: it has no
\* ruleId, severity or status property
ArrayElem(items) ==
  [kind |-> "array", ruleId |-> "undefined", severity |-> "undefined",
   status |-> "undefined", category |-> "undefined", reason |-> "undefined",
   fix |-> "undefined", evidence |-> <<>>, items |-> items]

(***************************************************************************)
(* Decision aggregator                                                     *)
(***************************************************************************)
\* Array.prototype.some with the predicate f[prop] === val, scanning from
\* index 1 and stopping at the first hit
RECURSIVE someFrom(_, _, _, _)
someFrom(list, i, prop, val) ==
  IF i > Len(list) THEN FALSE
  ELSE IF list[i][prop] = val THEN TRUE
  ELSE someFrom(list, i + 1, prop, val)

some(list, prop, val) == someFrom(list, 1, prop, val)

decideFatalFirst(fs) ==
  LET status ==
        IF some(fs, "severity", "FATAL") THEN "FATAL"
        ELSE IF some(fs, "status", "GATING") THEN "GATING"
        ELSE IF some(fs, "severity", "FIXABLE") THEN "FIXABLE"
        ELSE "PASS"
      verdict ==
        IF status = "PASS" THEN "MEETS_SME_LENDER_CRITERIA" ELSE "NOT_YET_LENDABLE"
  IN [verdict |-> verdict, status |-> status]

decideVerdictByLength(fs) ==
  LET status ==
        IF some(fs, "status", "GATING") THEN "GATING"
        ELSE IF some(fs, "severity", "FATAL") THEN "FATAL"
        ELSE IF some(fs, "severity", "FIXABLE") THEN "FIXABLE"
        ELSE "PASS"
      verdict ==
        IF Len(fs) = 0 THEN "MEETS_SME_LENDER_CRITERIA" ELSE "NOT_YET_LENDABLE"
  IN [verdict |-> verdict, status |-> status]

decide(fs) ==
  LET status ==
        IF some(fs, "status", "GATING") THEN "GATING"
        ELSE IF some(fs, "severity", "FATAL") THEN "FATAL"
        ELSE IF some(fs, "severity", "FIXABLE") THEN "FIXABLE"
        ELSE "PASS"
      verdict ==
        IF status = "PASS" THEN "MEETS_SME_LENDER_CRITERIA" ELSE "NOT_YET_LENDABLE"
  IN [verdict |-> verdict, status |-> status]

\* a variant of the older decide that looks for FIXABLE before FATAL
decideOlderFixableFirst(fs) ==
  LET hasFatal == some(fs, "severity", "FATAL")
      hasFixable == some(fs, "severity", "FIXABLE")
  IN IF hasFixable
     THEN [verdict |-> "NOT_YET_LENDABLE", status |-> "FIXABLE", failures |-> fs]
     ELSE IF hasFatal
     THEN [verdict |-> "NOT_YET_LENDABLE", status |-> "FATAL", failures |-> fs]
     ELSE [verdict |-> "MEETS_SME_LENDER_CRITERIA", status |-> "PASS", failures |-> << >>]

\* the older decide, without the GATING branch; it also returns the list
decideOlder(fs) ==
  LET hasFatal == some(fs, "severity", "FATAL")
      hasFixable == some(fs, "severity", "FIXABLE")
  IN IF hasFatal
     THEN [verdict |-> "NOT_YET_LENDABLE", status |-> "FATAL", failures |-> fs]
     ELSE IF hasFixable
     THEN [verdict |-> "NOT_YET_LENDABLE", status |-> "FIXABLE", failures |-> fs]
     ELSE [verdict |-> "MEETS_SME_LENDER_CRITERIA", status |-> "PASS", failures |-> << >>]

(***************************************************************************)
(* Metric deriver                                                          *)
(***************************************************************************)
\* a variant in which a ratio over a zero denominator is 0 instead of null
computeMetricsZeroFallback(inp) ==
  LET gdv == Number(Opt(Opt(inp, "appraisal"), "gdv"))
      totalCost == Number(Opt(Opt(inp, "appraisal"), "total_cost"))
      equity == Number(Opt(Opt(inp, "appraisal"), "equity"))
      buildCost == Number(Opt(Opt(inp, "appraisal"), "build_cost"))
      contingency == Number(Opt(Opt(inp, "appraisal"), "contingency"))
      units == Number(Opt(Opt(inp, "scheme"), "units"))
      buildMonths == Number(Opt(Opt(inp, "programme"), "build_months"))
  IN [margin_on_cost |->
        IF GtZero(totalCost) THEN Div(Sub(gdv, totalCost), totalCost) ELSE Num(0, 1),
      margin_on_gdv |->
        IF GtZero(gdv) THEN Div(Sub(gdv, totalCost), gdv) ELSE Num(0, 1),
      ltc |->
        IF GtZero(totalCost) THEN Div(Sub(totalCost, equity), totalCost) ELSE Num(0, 1),
      ltgdv |->
        IF GtZero(gdv) THEN Div(Sub(totalCost, equity), gdv) ELSE Num(0, 1),
      contingency_pct |->
        IF GtZero(buildCost) THEN Div(contingency, buildCost) ELSE Num(0, 1),
      build_months_per_unit |->
        IF GtZero(units) THEN Div(buildMonths, units) ELSE Num(0, 1)]

\* a variant with the denominators of ltc and ltgdv exchanged
computeMetricsSwapped(inp) ==
  LET gdv == Number(Opt(Opt(inp, "appraisal"), "gdv"))
      totalCost == Number(Opt(Opt(inp, "appraisal"), "total_cost"))
      equity == Number(Opt(Opt(inp, "appraisal"), "equity"))
      buildCost == Number(Opt(Opt(inp, "appraisal"), "build_cost"))
      contingency == Number(Opt(Opt(inp, "appraisal"), "contingency"))
      units == Number(Opt(Opt(inp, "scheme"), "units"))
      buildMonths == Number(Opt(Opt(inp, "programme"), "build_months"))
  IN [margin_on_cost |->
        IF GtZero(totalCost) THEN Div(Sub(gdv, totalCost), totalCost) ELSE Null,
      margin_on_gdv |->
        IF GtZero(gdv) THEN Div(Sub(gdv, totalCost), gdv) ELSE Null,
      ltc |->
        IF GtZero(gdv) THEN Div(Sub(totalCost, equity), gdv) ELSE Null,
      ltgdv |->
        IF GtZero(totalCost) THEN Div(Sub(totalCost, equity), totalCost) ELSE Null,
      contingency_pct |->
        IF GtZero(buildCost) THEN Div(contingency, buildCost) ELSE Null,
      build_months_per_unit |->
        IF GtZero(units) THEN Div(buildMonths, units) ELSE Null]

computeMetrics(inp) ==
  LET gdv == Number(Opt(Opt(inp, "appraisal"), "gdv"))
      totalCost == Number(Opt(Opt(inp, "appraisal"), "total_cost"))
      equity == Number(Opt(Opt(inp, "appraisal"), "equity"))
      buildCost == Number(Opt(Opt(inp, "appraisal"), "build_cost"))
      contingency == Number(Opt(Opt(inp, "appraisal"), "contingency"))
      units == Number(Opt(Opt(inp, "scheme"), "units"))
      buildMonths == Number(Opt(Opt(inp, "programme"), "build_months"))
  IN [margin_on_cost |->
        IF GtZero(totalCost) THEN Div(Sub(gdv, totalCost), totalCost) ELSE Null,
      margin_on_gdv |->
        IF GtZero(gdv) THEN Div(Sub(gdv, totalCost), gdv) ELSE Null,
      ltc |->
        IF GtZero(totalCost) THEN Div(Sub(totalCost, equity), totalCost) ELSE Null,
      ltgdv |->
        IF GtZero(gdv) THEN Div(Sub(totalCost, equity), gdv) ELSE Null,
      contingency_pct |->
        IF GtZero(buildCost) THEN Div(contingency, buildCost) ELSE Null,
      build_months_per_unit |->
        IF GtZero(units) THEN Div(buildMonths, units) ELSE Null]

(***************************************************************************)
(* Rule predicates (rules.ts)                                              *)
(***************************************************************************)
\* get(obj, path): the path is given split at its dots, as a sequence of
\* keys; the walk reads o[k] while o is truthy and undefined afterwards
RECURSIVE getFrom(_, _, _)
getFrom(o, path, i) ==
  IF i > Len(path) THEN o
  ELSE getFrom(IF Truthy(o) THEN Prop(o, path[i]) ELSE Undefined, path, i + 1)

get(obj, path) == getFrom(obj, path, 1)

PlanningFailure(reason, fix) ==
  RuleFailure("PREREQ_PLANNING_STAGE", "FIXABLE", "GATING", "INPUT", reason, fix, <<>>)

prereqPlanningStage(inp) ==
  LET stage == Opt(Prop(inp, "planning"), "stage")
      hasTdc == Opt(Prop(inp, "planning"), "hasTdc") = True
  IN IF ~Truthy(stage) \/ stage = Str("NONE") \/ stage = Str("PRE_APP")
       THEN << PlanningFailure(
                 "Planning stage insufficient for underwriting (need at least Outline, Full, or PiP with TDC).",
                 "Secure at least Outline consent or PiP with TDC before re-submission.") >>
     ELSE IF stage = Str("PIP") /\ ~hasTdc
       THEN << PlanningFailure(
                 "PiP without Technical Details Consent (TDC) is insufficient for underwriting.",
                 "Provide TDC evidence or progress to Outline/Full consent.") >>
     ELSE << >>

TechnicalPackFailure(reason, fix) ==
  RuleFailure("PREREQ_TECHNICAL_PACK", "FIXABLE", "GATING", "INPUT", reason, fix, <<>>)

prereqTechnicalPack(inp) ==
  LET tp == Prop(inp, "technicalPack")
      brRaw == OrEmpty(tp, "buildRegsStage")
      br == IF brRaw \in {Undefined, Null} THEN Str("NONE") ELSE brRaw
  IN IF OrEmpty(tp, "hasCostPlan") # True
       THEN << TechnicalPackFailure(
                 "Missing cost plan / QS budget (required for underwriting).",
                 "Provide a cost plan or QS budget for review.") >>
     ELSE IF OrEmpty(tp, "hasWorkingDrawings") # True
       THEN << TechnicalPackFailure(
                 "Missing working drawings (required for underwriting).",
                 "Provide working drawings or equivalent design pack.") >>
     ELSE IF br = Str("NONE") \/ br = Str("IN_PROGRESS")
       THEN << TechnicalPackFailure(
                 "Building Regulations not sufficiently progressed (need at least SUBMITTED).",
                 "Submit Building Regulations or provide evidence of submission.") >>
     ELSE IF OrEmpty(tp, "miningRiskArea") = True /\ OrEmpty(tp, "hasMiningSurvey") # True
       THEN << TechnicalPackFailure(
                 "Mining risk area flagged but mining/ground risk survey is missing.",
                 "Provide the mining/ground risk survey.") >>
     ELSE << >>

prereqExitEvidence(inp) ==
  LET exit == Prop(inp, "exitEvidence")
      hasEvidence ==
        OrEmpty(exit, "hasAgentAppraisal") = True
          \/ OrEmpty(exit, "hasComparableEvidence") = True
  IN IF ~hasEvidence
       THEN << RuleFailure("PREREQ_EXIT_EVIDENCE", "FIXABLE", "GATING", "INPUT",
                 "No exit evidence provided (agent appraisal or comparable sales required).",
                 "Provide an agent appraisal or comparable sales evidence.", <<>>) >>
     ELSE << >>

\* failure(ctx, field, meta): the evidence records the path and the value read
\* a variant whose evidence records the path and not the value read
failurePathOnly(ctx, field, meta) ==
  RuleFailure(meta.id, meta.severity, "undefined", meta.category,
              meta.reason, meta.fix, << <<field, Undefined>> >>)

failure(ctx, field, meta) ==
  LET value == get(ctx, field)
  IN RuleFailure(meta.id, meta.severity, "undefined", meta.category,
                 meta.reason, meta.fix, << <<field, value>> >>)

thresholdMinStrict(ctx, field, min, meta) ==
  LET value == get(ctx, field)
  IN IF IsNumber(value) /\ Ge(value, min) /\ ~Le(value, min) THEN Null
     ELSE failure(ctx, field, meta)

thresholdMin(ctx, field, min, meta) ==
  LET value == get(ctx, field)
  IN IF IsNumber(value) /\ Ge(value, min) THEN Null
     ELSE failure(ctx, field, meta)

thresholdMaxInverted(ctx, field, max, meta) ==
  LET value == get(ctx, field)
  IN IF IsNumber(value) /\ Ge(value, max) THEN Null
     ELSE failure(ctx, field, meta)

thresholdMax(ctx, field, max, meta) ==
  LET value == get(ctx, field)
  IN IF IsNumber(value) /\ Le(value, max) THEN Null
     ELSE failure(ctx, field, meta)

(***************************************************************************)
(* Threshold bands (bands.ts)                                              *)
(***************************************************************************)
\* allowed_planning_statuses is not read by evaluator.ts and is left out
SME_MAINSTREAM_BANDS_V1 ==
  [min_margin_on_cost |-> Num(15, 100),
   min_contingency_pct |-> Num(5, 100),
   max_ltgdv |-> Num(65, 100),
   max_ltc |-> Num(85, 100),
   max_build_months_per_unit |-> Num(25, 10)]

(***************************************************************************)
(* Evaluator (evaluator.ts)                                                *)
(***************************************************************************)
\* for (const f of list) if (f) failures.push(f)
RECURSIVE pushTruthy(_, _, _)
pushTruthy(fs, list, i) ==
  IF i > Len(list) THEN fs
  ELSE pushTruthy(IF Truthy(list[i]) THEN Append(fs, list[i]) ELSE fs, list, i + 1)

Meta(id, severity, category, reason, fix) ==
  [id |-> id, severity |-> severity, category |-> category,
   reason |-> reason, fix |-> fix]

FIN014 ==
  Meta("FIN-014", "FATAL", "METRIC",
       "Margin on cost below mainstream lender minimum.",
       "Increase GDV, reduce costs, or inject more equity.")

FIN030 ==
  Meta("FIN-030", "FATAL", "METRIC",
       "LTGDV above mainstream lender maximum.",
       "Increase equity, reduce total cost, or reduce leverage requested.")

FIN031 ==
  Meta("FIN-031", "FATAL", "METRIC",
       "LTC above mainstream lender maximum.",
       "Increase equity or reduce total cost to meet leverage band.")

\* the fix text writes the range 5-7% with a dash
FIN021 ==
  Meta("FIN-021", "FIXABLE", "METRIC",
       "Contingency allowance below mainstream expectations.",
       "Increase contingency to at least 5-7% of build cost and re-run.")

PRG010 ==
  Meta("PRG-010", "FIXABLE", "STRUCTURAL",
       "Build programme appears slow for unit count.",
       "Provide a detailed build programme or adjust timeline assumptions.")

\* the failure list evaluateDetailed hands to decide.  prereqPlanningStage
\* returns an array; an array is truthy also when empty, and push appends
\* the array itself as one element of the list
collectFailures(inp, b) ==
  LET metrics == computeMetrics(inp)
      ctx == [input |-> inp, metrics |-> metrics, bands |-> b]
      planningGate == ArrayElem(prereqPlanningStage(ctx.input))
      gated == IF Truthy(planningGate) THEN << planningGate >> ELSE << >>
      fatalMetricRules ==
        << thresholdMin(ctx, <<"metrics", "margin_on_cost">>, b.min_margin_on_cost, FIN014),
           thresholdMax(ctx, <<"metrics", "ltgdv">>, b.max_ltgdv, FIN030),
           thresholdMax(ctx, <<"metrics", "ltc">>, b.max_ltc, FIN031) >>
      fixableRules ==
        << thresholdMin(ctx, <<"metrics", "contingency_pct">>, b.min_contingency_pct, FIN021),
           thresholdMax(ctx, <<"metrics", "build_months_per_unit">>,
                        b.max_build_months_per_unit, PRG010) >>
  IN pushTruthy(pushTruthy(gated, fatalMetricRules, 1), fixableRules, 1)

\* a variant whose failure list lives outside the function and is never
\* emptied: a call appends to what the previous call left
evaluateDetailedSharedList(inp, b) ==
  LET fs == output.result.failures \o collectFailures(inp, b)
      d == decide(fs)
  IN [result |-> [verdict |-> d.verdict, status |-> d.status, failures |-> fs],
      debug |-> [metrics |-> computeMetrics(inp)]]

evaluateDetailed(inp, b) ==
  LET fs == collectFailures(inp, b)
      d == decide(fs)
  IN [result |-> [verdict |-> d.verdict, status |-> d.status, failures |-> fs],
      debug |-> [metrics |-> computeMetrics(inp)]]

evaluate(inp, b) == evaluateDetailed(inp, b).result

(***************************************************************************)
(* Assessment types (types/index.ts)                                       *)
(***************************************************************************)
\* a Fix as a rule returns it (Omit<Fix, "ruleId">): id is the template
\* `${schemeId}-<rule>` kept as the pair of its parts, actual the formatted
\* value; the fixed texts description and expected are left out
Fix(id, severity, field, actual) ==
  [id |-> id, severity |-> severity, field |-> field, actual |-> actual]

\* { ...fix, ruleId: id }
WithRuleId(fix, id) ==
  [id |-> fix.id, severity |-> fix.severity, field |-> fix.field,
   actual |-> fix.actual, ruleId |-> id]

\* a RuleResult; fix is Undefined when the property is not set
RuleResult(ruleId, passed, fix) == [ruleId |-> ruleId, passed |-> passed, fix |-> fix]

\* a Rule; evaluate names the function, returns is the result of a rule
\* whose function ignores the scheme (Undefined for the standard rules)
Rule(id, category, required, weight, fn, returns) ==
  [id |-> id, category |-> category, required |-> required, weight |-> weight,
   evaluate |-> fn, returns |-> returns]

(***************************************************************************)
(* Standard SME rules (rules/smeRules.ts)                                  *)
(***************************************************************************)
MAX_LTV_PERCENT == 70

MAX_LTC_PERCENT == 75

MIN_EQUITY_PERCENT == 25

MIN_GDV_TO_COST_PERCENT == 120

MIN_DEVELOPER_EXPERIENCE_YEARS == 3

MIN_COMPLETED_PROJECTS == 2

MAX_CONSTRUCTION_PERIOD_MONTHS == 24

MIN_UNITS == 2

MIN_SQUARE_FEET == 5000

MIN_DOCUMENT_QUALITY_SCORE == 70

\* (a / b) * 100 for b > 0, and 0 otherwise
PercentOf(a, b) == IF GtZero(b) THEN Div(Num(a.n * 100, a.d), b) ELSE Num(0, 1)

\* x.toFixed(2) for x >= 0: the hundredths nearest to x, the larger of two
\* equally near ones
toFixed2(x) == [hundredths |-> (2 * 100 * x.n + x.d) \div (2 * x.d)]

calculateLTV(context) ==
  PercentOf(context.scheme.financials.loanAmount, context.scheme.financials.gdv)

calculateLTC(context) ==
  PercentOf(context.scheme.financials.loanAmount, context.scheme.financials.totalCost)

FixId(context, rule) == <<context.scheme.schemeId, rule>>

FIN001evaluate(context) ==
  LET ltv == calculateLTV(context)
  IN IF Le(ltv, Num(MAX_LTV_PERCENT, 1)) THEN RuleResult("FIN-001", TRUE, Undefined)
     ELSE RuleResult("FIN-001", FALSE,
                     Fix(FixId(context, "FIN-001"), "CRITICAL",
                         "financials.loanAmount", <<toFixed2(ltv), "%">>))

FIN002evaluate(context) ==
  LET ltc == calculateLTC(context)
  IN IF Le(ltc, Num(MAX_LTC_PERCENT, 1)) THEN RuleResult("FIN-002", TRUE, Undefined)
     ELSE RuleResult("FIN-002", FALSE,
                     Fix(FixId(context, "FIN-002"), "CRITICAL",
                         "financials.loanAmount", <<toFixed2(ltc), "%">>))

\* a variant whose limit is exclusive
FIN003evaluateStrict(context) ==
  LET equityPercent ==
        PercentOf(context.scheme.financials.equity, context.scheme.financials.totalCost)
  IN IF Ge(equityPercent, Num(MIN_EQUITY_PERCENT, 1))
        /\ ~Le(equityPercent, Num(MIN_EQUITY_PERCENT, 1))
     THEN RuleResult("FIN-003", TRUE, Undefined)
     ELSE RuleResult("FIN-003", FALSE,
                     Fix(FixId(context, "FIN-003"), "CRITICAL",
                         "financials.equity", <<toFixed2(equityPercent), "%">>))

FIN003evaluate(context) ==
  LET equityPercent ==
        PercentOf(context.scheme.financials.equity, context.scheme.financials.totalCost)
  IN IF Ge(equityPercent, Num(MIN_EQUITY_PERCENT, 1))
     THEN RuleResult("FIN-003", TRUE, Undefined)
     ELSE RuleResult("FIN-003", FALSE,
                     Fix(FixId(context, "FIN-003"), "CRITICAL",
                         "financials.equity", <<toFixed2(equityPercent), "%">>))

FIN004evaluate(context) ==
  LET gdvRatio ==
        PercentOf(context.scheme.financials.gdv, context.scheme.financials.totalCost)
  IN IF Ge(gdvRatio, Num(MIN_GDV_TO_COST_PERCENT, 1))
     THEN RuleResult("FIN-004", TRUE, Undefined)
     ELSE RuleResult("FIN-004", FALSE,
                     Fix(FixId(context, "FIN-004"), "MAJOR",
                         "financials.gdv", <<toFixed2(gdvRatio), "%">>))

EXP001evaluate(context) ==
  LET experienceYears == context.scheme.developer.experienceYears
  IN IF Ge(experienceYears, Num(MIN_DEVELOPER_EXPERIENCE_YEARS, 1))
     THEN RuleResult("EXP-001", TRUE, Undefined)
     ELSE RuleResult("EXP-001", FALSE,
                     Fix(FixId(context, "EXP-001"), "CRITICAL",
                         "developer.experienceYears", <<experienceYears, " years">>))

EXP002evaluate(context) ==
  LET completedProjects == context.scheme.developer.completedProjects
  IN IF Ge(completedProjects, Num(MIN_COMPLETED_PROJECTS, 1))
     THEN RuleResult("EXP-002", TRUE, Undefined)
     ELSE RuleResult("EXP-002", FALSE,
                     Fix(FixId(context, "EXP-002"), "CRITICAL",
                         "developer.completedProjects", <<completedProjects, "">>))

EXP003evaluate(context) ==
  LET defaultHistory == context.scheme.developer.defaultHistory
  IN IF ~Truthy(defaultHistory) THEN RuleResult("EXP-003", TRUE, Undefined)
     ELSE RuleResult("EXP-003", FALSE,
                     Fix(FixId(context, "EXP-003"), "CRITICAL",
                         "developer.defaultHistory", <<"Default history present", "">>))

DEV001evaluate(context) ==
  LET constructionPeriod == context.scheme.development.constructionPeriod
  IN IF Le(constructionPeriod, Num(MAX_CONSTRUCTION_PERIOD_MONTHS, 1))
     THEN RuleResult("DEV-001", TRUE, Undefined)
     ELSE RuleResult("DEV-001", FALSE,
                     Fix(FixId(context, "DEV-001"), "MAJOR",
                         "development.constructionPeriod",
                         <<constructionPeriod, " months">>))

DEV002evaluate(context) ==
  LET units == context.scheme.development.units
      squareFeet == context.scheme.development.squareFeet
  IN IF Ge(units, Num(MIN_UNITS, 1)) \/ Ge(squareFeet, Num(MIN_SQUARE_FEET, 1))
     THEN RuleResult("DEV-002", TRUE, Undefined)
     ELSE RuleResult("DEV-002", FALSE,
                     Fix(FixId(context, "DEV-002"), "MAJOR", "development",
                         <<units, " units, ", squareFeet, " sq ft">>))

\* a variant in which an absent score counts as 0 and fails
DOC001evaluateAbsentFails(context) ==
  LET documentQuality == Number(Opt(context.scheme.aiScores, "documentQuality"))
  IN IF Ge(documentQuality, Num(MIN_DOCUMENT_QUALITY_SCORE, 1))
     THEN RuleResult("DOC-001", TRUE, Undefined)
     ELSE RuleResult("DOC-001", FALSE,
                     Fix(FixId(context, "DOC-001"), "MINOR",
                         "aiScores.documentQuality", <<documentQuality, "">>))

\* a variant whose fix is CRITICAL
DOC001evaluateCritical(context) ==
  LET documentQuality == Opt(context.scheme.aiScores, "documentQuality")
  IN IF documentQuality = Undefined THEN RuleResult("DOC-001", TRUE, Undefined)
     ELSE IF Ge(documentQuality, Num(MIN_DOCUMENT_QUALITY_SCORE, 1))
     THEN RuleResult("DOC-001", TRUE, Undefined)
     ELSE RuleResult("DOC-001", FALSE,
                     Fix(FixId(context, "DOC-001"), "CRITICAL",
                         "aiScores.documentQuality", <<documentQuality, "">>))

\* the document quality rule: an absent score passes (the AI is optional)
DOC001evaluate(context) ==
  LET documentQuality == Opt(context.scheme.aiScores, "documentQuality")
  IN IF documentQuality = Undefined THEN RuleResult("DOC-001", TRUE, Undefined)
     ELSE IF Ge(documentQuality, Num(MIN_DOCUMENT_QUALITY_SCORE, 1))
     THEN RuleResult("DOC-001", TRUE, Undefined)
     ELSE RuleResult("DOC-001", FALSE,
                     Fix(FixId(context, "DOC-001"), "MINOR",
                         "aiScores.documentQuality", <<documentQuality, "">>))

smeRules ==
  << Rule("FIN-001", "financial", TRUE, 10, "FIN-001", Undefined),
     Rule("FIN-002", "financial", TRUE, 10, "FIN-002", Undefined),
     Rule("FIN-003", "financial", TRUE, 9, "FIN-003", Undefined),
     Rule("FIN-004", "financial", TRUE, 8, "FIN-004", Undefined),
     Rule("EXP-001", "experience", TRUE, 8, "EXP-001", Undefined),
     Rule("EXP-002", "experience", TRUE, 7, "EXP-002", Undefined),
     Rule("EXP-003", "experience", TRUE, 10, "EXP-003", Undefined),
     Rule("DEV-001", "development", TRUE, 6, "DEV-001", Undefined),
     Rule("DEV-002", "development", TRUE, 5, "DEV-002", Undefined),
     Rule("DOC-001", "document", FALSE, 3, "DOC-001", Undefined) >>

\* rule.evaluate(context)
ruleEvaluate(rule, context) ==
  CASE rule.evaluate = "FIN-001" -> FIN001evaluate(context)
    [] rule.evaluate = "FIN-002" -> FIN002evaluate(context)
    [] rule.evaluate = "FIN-003" -> FIN003evaluate(context)
    [] rule.evaluate = "FIN-004" -> FIN004evaluate(context)
    [] rule.evaluate = "EXP-001" -> EXP001evaluate(context)
    [] rule.evaluate = "EXP-002" -> EXP002evaluate(context)
    [] rule.evaluate = "EXP-003" -> EXP003evaluate(context)
    [] rule.evaluate = "DEV-001" -> DEV001evaluate(context)
    [] rule.evaluate = "DEV-002" -> DEV002evaluate(context)
    [] rule.evaluate = "DOC-001" -> DOC001evaluate(context)
    [] OTHER -> rule.returns

(***************************************************************************)
(* Assessment engine (engine/AssessmentEngine.ts)                          *)
(***************************************************************************)
severityOrder == [CRITICAL |-> 0, MAJOR |-> 1, MINOR |-> 2]

\* Array.prototype.sort with the comparator
\* (a, b) => severityOrder[a.severity] - severityOrder[b.severity]: the sort
\* is stable, an element goes behind those that do not compare greater
RECURSIVE insertSorted(_, _, _)
insertSorted(sorted, x, i) ==
  IF i > Len(sorted) THEN Append(sorted, x)
  ELSE IF severityOrder[sorted[i].severity] - severityOrder[x.severity] > 0
  THEN SubSeq(sorted, 1, i - 1) \o << x >> \o SubSeq(sorted, i, Len(sorted))
  ELSE insertSorted(sorted, x, i + 1)

RECURSIVE sortFrom(_, _, _)
sortFrom(fixes, sorted, i) ==
  IF i > Len(fixes) THEN sorted
  ELSE sortFrom(fixes, insertSorted(sorted, fixes[i], 1), i + 1)

\* a variant that returns the fixes in the order the rules produced them
sortBySeverityOmitted(fixes) == fixes

sortBySeverity(fixes) == sortFrom(fixes, << >>, 1)

\* a variant of the loop that stops at the first CRITICAL fix
RECURSIVE assessFromStopAtCritical(_, _, _, _, _)
assessFromStopAtCritical(thisRules, context, results, fixes, i) ==
  IF i > Len(thisRules) THEN [results |-> results, fixes |-> fixes]
  ELSE LET rule == thisRules[i]
           result == ruleEvaluate(rule, context)
           failed == ~result.passed /\ Truthy(result.fix)
           pushed == IF failed THEN Append(fixes, WithRuleId(result.fix, rule.id))
                     ELSE fixes
       IN IF failed /\ result.fix.severity = "CRITICAL"
          THEN [results |-> Append(results, result), fixes |-> pushed]
          ELSE assessFromStopAtCritical(thisRules, context, Append(results, result),
                                        pushed, i + 1)

\* the loop of assess over this.rules from rule i on: each rule is
\* evaluated, its result pushed, and its fix pushed when it did not pass and
\* carries one
RECURSIVE assessFrom(_, _, _, _, _)
assessFrom(thisRules, context, results, fixes, i) ==
  IF i > Len(thisRules) THEN [results |-> results, fixes |-> fixes]
  ELSE LET rule == thisRules[i]
           result == ruleEvaluate(rule, context)
       IN assessFrom(thisRules, context, Append(results, result),
                     IF ~result.passed /\ Truthy(result.fix)
                     THEN Append(fixes, WithRuleId(result.fix, rule.id))
                     ELSE fixes,
                     i + 1)

verdictOf(fixes) ==
  LET criticalFailures == SelectSeq(fixes, LAMBDA f : f.severity = "CRITICAL")
  IN IF Len(criticalFailures) = 0 THEN "APPROVED" ELSE "REJECTED"

\* a variant whose fix list lives on the engine and is never emptied: a
\* call adds to the fixes of the previous call
assessKeepsFixes(thisRules, schemeData, now) ==
  LET context == [scheme |-> schemeData]
      run == assessFrom(thisRules, context, << >>, << >>, 1)
      results == run.results
      fixes == assessment.result.fixes \o run.fixes
      totalRules == Len(results)
      passedRules == Len(SelectSeq(results, LAMBDA r : r.passed))
      failedRules == totalRules - passedRules
  IN [verdict |-> verdictOf(fixes),
      fixes |-> sortBySeverity(fixes),
      timestamp |-> now,
      summary |-> [totalRules |-> totalRules, passedRules |-> passedRules,
                   failedRules |-> failedRules]]

\* a variant that counts the fixes as the failed rules
assessCountsFixes(thisRules, schemeData, now) ==
  LET context == [scheme |-> schemeData]
      run == assessFrom(thisRules, context, << >>, << >>, 1)
      results == run.results
      fixes == run.fixes
      totalRules == Len(results)
      passedRules == Len(SelectSeq(results, LAMBDA r : r.passed))
      failedRules == Len(fixes)
  IN [verdict |-> verdictOf(fixes),
      fixes |-> sortBySeverity(fixes),
      timestamp |-> now,
      summary |-> [totalRules |-> totalRules, passedRules |-> passedRules,
                   failedRules |-> failedRules]]

\* AssessmentEngine.assess(scheme) of an engine whose this.rules is
\* thisRules, at the time now
assess(thisRules, schemeData, now) ==
  LET context == [scheme |-> schemeData]
      run == assessFrom(thisRules, context, << >>, << >>, 1)
      results == run.results
      fixes == run.fixes
      totalRules == Len(results)
      passedRules == Len(SelectSeq(results, LAMBDA r : r.passed))
      failedRules == totalRules - passedRules
  IN [verdict |-> verdictOf(fixes),
      fixes |-> sortBySeverity(fixes),
      timestamp |-> now,
      summary |-> [totalRules |-> totalRules, passedRules |-> passedRules,
                   failedRules |-> failedRules]]

\* a variant of getRules that hands out this.rules itself
getRulesNoCopy(thisRules) == [items |-> thisRules, sameArray |-> TRUE]

\* getRules(): [...this.rules], a new array with the same rules
getRules(thisRules) == [items |-> thisRules, sameArray |-> FALSE]

\* getRulesByCategory(category): this.rules.filter(...), a new array
getRulesByCategory(thisRules, category) ==
  [items |-> SelectSeq(thisRules, LAMBDA r : r.category = category),
   sameArray |-> FALSE]

(***************************************************************************)
(* Inputs                                                                  *)
(***************************************************************************)
\* the deal of evaluator.test.ts, amounts in units of 10,000
BASE_INPUT ==
  [scheme |-> [units |-> Num(4, 1)],
   planning |-> [stage |-> Str("FULL"), hasTdc |-> Undefined],
   technicalPack |->
     [hasCostPlan |-> True, hasWorkingDrawings |-> True,
      buildRegsStage |-> Str("SUBMITTED"), miningRiskArea |-> False,
      hasMiningSurvey |-> Undefined],
   exitEvidence |-> [hasAgentAppraisal |-> True, hasComparableEvidence |-> Undefined],
   appraisal |->
     [gdv |-> Num(100, 1), total_cost |-> Num(80, 1), equity |-> Num(20, 1),
      build_cost |-> Num(50, 1), contingency |-> Num(4, 1)],
   programme |-> [build_months |-> Num(10, 1)]]

\* a second set of bands, tighter than the mainstream ones
TIGHT_BANDS ==
  [min_margin_on_cost |-> Num(20, 100),
   min_contingency_pct |-> Num(8, 100),
   max_ltgdv |-> Num(60, 100),
   max_ltc |-> Num(75, 100),
   max_build_months_per_unit |-> Num(2, 1)]

BandsChoices == {SME_MAINSTREAM_BANDS_V1, TIGHT_BANDS}

PlanningChoices ==
  {Undefined}
    \cup {[stage |-> s, hasTdc |-> Undefined] :
            s \in {Undefined, Str("NONE"), Str("PRE_APP"), Str("PIP"),
                   Str("OUTLINE"), Str("FULL")}}
    \cup {[stage |-> Str("PIP"), hasTdc |-> b] : b \in {True, False}}
    \cup {[stage |-> Str("OUTLINE"), hasTdc |-> True]}

TechnicalPackChoices ==
  {Undefined, BASE_INPUT.technicalPack}
    \cup {[BASE_INPUT.technicalPack EXCEPT !.hasCostPlan = v] : v \in {False, Undefined}}
    \cup {[BASE_INPUT.technicalPack EXCEPT !.hasWorkingDrawings = False]}
    \cup {[BASE_INPUT.technicalPack EXCEPT !.buildRegsStage = v] :
            v \in {Undefined, Str("NONE"), Str("IN_PROGRESS"), Str("APPROVED")}}
    \cup {[BASE_INPUT.technicalPack EXCEPT !.miningRiskArea = True, !.hasMiningSurvey = v] :
            v \in {Undefined, False, True}}

ExitEvidenceChoices ==
  {Undefined}
    \cup {[hasAgentAppraisal |-> a, hasComparableEvidence |-> c] :
            a \in {Undefined, True}, c \in {Undefined, True, False}}

\* the supporting documents: every technical pack with the exit evidence of
\* the base deal, and every exit evidence with its technical pack
DocumentChoices ==
  {[technicalPack |-> tp, exitEvidence |-> BASE_INPUT.exitEvidence] :
     tp \in TechnicalPackChoices}
    \cup {[technicalPack |-> BASE_INPUT.technicalPack, exitEvidence |-> e] :
            e \in ExitEvidenceChoices}

\* <<gdv, total_cost, equity>>: the base deal; ltgdv alone, ltc alone and the
\* margin alone out of the mainstream bands; two and three of them out; a zero
\* total cost, a zero gdv, both zero
FinanceChoices ==
  {<<100, 80, 20>>, <<100, 80, 14>>, <<120, 80, 5>>, <<90, 80, 30>>,
   <<100, 80, 5>>, <<90, 80, 5>>, <<100, 0, 20>>, <<0, 80, 20>>, <<0, 0, 20>>}

\* <<build_cost, contingency>>
ContingencyChoices == {<<50, 4>>, <<50, 1>>, <<0, 4>>}

AppraisalChoices ==
  {[gdv |-> Num(f[1], 1), total_cost |-> Num(f[2], 1), equity |-> Num(f[3], 1),
    build_cost |-> Num(cc[1], 1), contingency |-> Num(cc[2], 1)] :
     f \in FinanceChoices, cc \in ContingencyChoices}

\* <<units, build_months>>
ProgrammeChoices == {<<4, 10>>, <<4, 11>>, <<0, 10>>}

MakeInput(pl, doc, ap, pr) ==
  [scheme |-> [units |-> Num(pr[1], 1)],
   planning |-> pl,
   technicalPack |-> doc.technicalPack,
   exitEvidence |-> doc.exitEvidence,
   appraisal |-> ap,
   programme |-> [build_months |-> Num(pr[2], 1)]]

\* the failures handed to decide directly: every severity with and without
\* the GATING tag, and an array nested in the list
SampleFailure(severity, status) ==
  RuleFailure(IF status = "GATING" THEN "GATE-001" ELSE "RULE-001", severity, status,
              "INPUT", "Missing prerequisite data.", "Provide required documents.", <<>>)

FailureChoices ==
  {SampleFailure(sv, st) : sv \in {"FATAL", "FIXABLE"}, st \in {"GATING", "undefined"}}
    \cup {ArrayElem(<<>>)}

FailureLists == UNION {[1..n -> FailureChoices] : n \in 0..MaxFailures}

ThresholdValues ==
  {Undefined, Null, NaN, Str("n/a")}
    \cup {Num(n, d) : n \in -1..MaxThreshold, d \in {1, 2}}

ThresholdLimits == {Num(n, d) : n \in 0..MaxThreshold, d \in {1, 2}}

\* the deals evaluated with a section missing, null or malformed: each
\* section is the one of the base deal, absent, null, or of the wrong shape
SectionDefects(section) ==
  {Undefined, Null}
    \cup (CASE section = "scheme" -> {[units |-> Str("four")]}
            [] section = "planning" -> {Str("FULL")}
            [] section = "technicalPack" -> {Str("complete")}
            [] section = "exitEvidence" -> {True}
            [] section = "appraisal" ->
                 {[gdv |-> Str("1.0m"), total_cost |-> Undefined, equity |-> Undefined,
                   build_cost |-> Undefined, contingency |-> Undefined]}
            [] section = "programme" -> {[build_months |-> Str("ten")]})

SectionChoices(section) == {BASE_INPUT[section]} \cup SectionDefects(section)

\* the values a source field of the metrics takes: absent, zero, negative,
\* positive, and a string that is no number
\* <<gdv, total_cost, equity>>
MetricFinanceChoices ==
  {<<g, c, e>> : g \in {Undefined, Num(0, 1), Num(-50, 1), Num(100, 1), Str("1.0m")},
                 c \in {Undefined, Num(0, 1), Num(-80, 1), Num(80, 1), Str("n/a")},
                 e \in {Undefined, Num(20, 1), Num(100, 1), Str("none")}}

\* <<build_cost, contingency, units, build_months>>: the build costs with
\* the programme of the base deal, and the programmes with its build costs
MetricBuildChoices ==
  {<<bc, ct, Num(4, 1), Num(10, 1)>> :
     bc \in {Undefined, Num(0, 1), Num(-50, 1), Num(50, 1), Str("tbc")},
     ct \in {Undefined, Num(4, 1), Str("5%")}}
    \cup {<<Num(50, 1), Num(4, 1), u, m>> :
            u \in {Undefined, Num(0, 1), Num(-4, 1), Num(4, 1), Str("four")},
            m \in {Undefined, Num(10, 1), Str("ten")}}

MetricInput(f, x) ==
  [BASE_INPUT EXCEPT
     !.appraisal = [gdv |-> f[1], total_cost |-> f[2], equity |-> f[3],
                    build_cost |-> x[1], contingency |-> x[2]],
     !.scheme = [units |-> x[3]],
     !.programme = [build_months |-> x[4]]]

\* the base deal without its appraisal, its scheme or its programme
MetricSectionChoices ==
  {[BASE_INPUT EXCEPT ![s] = Undefined] : s \in {"appraisal", "scheme", "programme"}}

\* the deals evaluate is called on repeatedly
RepeatInputs ==
  {BASE_INPUT,
   [BASE_INPUT EXCEPT !.planning = [stage |-> Str("PRE_APP"), hasTdc |-> Undefined]],
   [BASE_INPUT EXCEPT !.appraisal.equity = Num(5, 1)]}

\* createValidScheme() of the engine tests, amounts in units of 10,000; the
\* members no rule reads (info, landCost, buildCost, developer.name) are
\* left out
VALID_SCHEME ==
  [schemeId |-> "TEST-001",
   financials |-> [totalCost |-> Num(100, 1), gdv |-> Num(140, 1),
                   equity |-> Num(30, 1), loanAmount |-> Num(70, 1)],
   development |-> [units |-> Num(4, 1), squareFeet |-> Num(8000, 1),
                    constructionPeriod |-> Num(18, 1)],
   developer |-> [experienceYears |-> Num(5, 1), completedProjects |-> Num(3, 1),
                  defaultHistory |-> False],
   aiScores |-> Undefined]

\* <<totalCost, gdv, equity, loanAmount>>: the valid scheme; the high LTV,
\* the low equity and the very low equity of the tests; a low gdv alone; the
\* borderline scheme of the tests; gdv at 120% of the cost; a zero total
\* cost; an LTV of exactly 70% with a low gdv; and one unit beyond a limit:
\* equity 24% with LTC 76%, gdv 119% of the cost, LTV 71%
FinancialChoices ==
  {<<100, 140, 30, 70>>, <<100, 140, 30, 112>>, <<100, 140, 20, 70>>,
   <<100, 140, 10, 70>>, <<100, 110, 30, 70>>, <<100, 140, 25, 75>>,
   <<100, 120, 25, 75>>, <<0, 140, 30, 70>>, <<100, 100, 30, 70>>,
   <<100, 140, 24, 76>>, <<100, 119, 30, 70>>, <<100, 100, 30, 71>>}

\* <<units, squareFeet, constructionPeriod>>
DevelopmentChoices ==
  {<<4, 8000, 18>>, <<4, 8000, 24>>, <<4, 8000, 30>>, <<1, 4000, 18>>,
   <<1, 5000, 18>>, <<2, 4000, 25>>, <<1, 4999, 18>>}

\* <<experienceYears, completedProjects, defaultHistory>>
DeveloperChoices ==
  {<<5, 3, FALSE>>, <<3, 2, FALSE>>, <<1, 3, FALSE>>, <<5, 1, FALSE>>,
   <<5, 3, TRUE>>, <<2, 1, TRUE>>, <<2, 3, FALSE>>}

\* aiScores absent, present without a document quality, and with one
AiScoresChoices ==
  {Undefined, [documentQuality |-> Undefined]}
    \cup {[documentQuality |-> Num(q, 1)] : q \in {0, 50, 69, 70, 85, 100}}

MakeScheme(fin, dev, who, ai) ==
  [schemeId |-> "TEST-001",
   financials |-> [totalCost |-> Num(fin[1], 1), gdv |-> Num(fin[2], 1),
                   equity |-> Num(fin[3], 1), loanAmount |-> Num(fin[4], 1)],
   development |-> [units |-> Num(dev[1], 1), squareFeet |-> Num(dev[2], 1),
                    constructionPeriod |-> Num(dev[3], 1)],
   developer |-> [experienceYears |-> Num(who[1], 1),
                  completedProjects |-> Num(who[2], 1),
                  defaultHistory |-> Bool(who[3])],
   aiScores |-> ai]

\* the schemes an engine is asked to assess repeatedly: the valid scheme,
\* the low equity, the long construction period and the low document
\* quality of the tests
RepeatSchemes ==
  {VALID_SCHEME,
   [VALID_SCHEME EXCEPT !.financials.equity = Num(20, 1)],
   [VALID_SCHEME EXCEPT !.development.constructionPeriod = Num(30, 1)],
   [VALID_SCHEME EXCEPT !.aiScores = [documentQuality |-> Num(50, 1)]]}

\* a sequence back to front
RECURSIVE Reverse(_)
Reverse(s) == IF s = << >> THEN << >> ELSE Reverse(Tail(s)) \o << Head(s) >>

Categories == {"financial", "experience", "development", "document"}

\* the rule sets an engine with accessors is built from: the standard rules
\* front to back and back to front, a part of them, and none
AccessorRuleSets == {smeRules, Reverse(smeRules), SubSeq(smeRules, 3, 8), << >>}

\* what a caller does to an array it was handed: remove the last element,
\* append a rule of its own, or reverse the array
ArrayMutations == {"pop", "push", "reverse"}

\* what a rule outside the standard set returns: it passes, fails without a
\* fix, or fails with a fix of one of the three severities
OutcomeChoices == {"PASS", "NOFIX", "CRITICAL", "MAJOR", "MINOR"}

CustomIds == << "CUSTOM-001", "CUSTOM-002", "CUSTOM-003", "CUSTOM-004", "CUSTOM-005" >>

\* the i-th rule of a custom rule set, with a given required flag and outcome
CustomRule(i, required, outcome) ==
  Rule(CustomIds[i], "financial", required, 1, "CUSTOM",
       CASE outcome = "PASS" -> RuleResult(CustomIds[i], TRUE, Undefined)
         [] outcome = "NOFIX" -> RuleResult(CustomIds[i], FALSE, Undefined)
         [] OTHER ->
              RuleResult(CustomIds[i], FALSE,
                         Fix(<<"TEST-001", CustomIds[i]>>, outcome, "financials.equity",
                             <<"custom", "">>)))

(***************************************************************************)
(* State machine                                                           *)
(***************************************************************************)
NoDecision == [call |-> "none", verdict |-> "none", status |-> "none"]

NoOutput ==
  [call |-> "none",
   result |-> [verdict |-> "none", status |-> "none", failures |-> <<>>],
   debug |-> Undefined]

NoThreshold == [call |-> "none", ret |-> Undefined]

IdleDecide == failures = <<>> /\ decision = NoDecision

IdleEval == input = BASE_INPUT /\ bands = SME_MAINSTREAM_BANDS_V1 /\ output = NoOutput

IdleThreshold == thValue = Undefined /\ thLimit = Num(0, 1) /\ thResult = NoThreshold

NoAssessment ==
  [call |-> "none",
   result |-> [verdict |-> "none", fixes |-> << >>, timestamp |-> 0,
               summary |-> [totalRules |-> 0, passedRules |-> 0, failedRules |-> 0]]]

IdleLog == log = << >>

\* no array has been handed out by an accessor
NoReturn == [call |-> "none", category |-> "none", items |-> << >>,
             sameArray |-> FALSE, mutations |-> 0]

IdleEngine ==
  /\ rules = << >> /\ scheme = VALID_SCHEME /\ assessment = NoAssessment /\ clock = 0
  /\ supplied = << >> /\ returned = NoReturn

InitDecide ==
  /\ failures \in FailureLists
  /\ decision = NoDecision
  /\ IdleEval
  /\ IdleThreshold
  /\ IdleLog
  /\ IdleEngine

InitEval ==
  /\ \E pl \in PlanningChoices, doc \in DocumentChoices,
        ap \in AppraisalChoices, pr \in ProgrammeChoices :
       input = MakeInput(pl, doc, ap, pr)
  /\ bands \in BandsChoices
  /\ output = NoOutput
  /\ IdleDecide
  /\ IdleThreshold
  /\ IdleLog
  /\ IdleEngine

InitThreshold ==
  /\ thValue \in ThresholdValues
  /\ thLimit \in ThresholdLimits
  /\ thResult = NoThreshold
  /\ IdleDecide
  /\ IdleEval
  /\ IdleLog
  /\ IdleEngine

\* a deal with any of its sections defective
InitDefects ==
  /\ \E sc \in SectionChoices("scheme"), pl \in SectionChoices("planning"),
        tp \in SectionChoices("technicalPack"), ex \in SectionChoices("exitEvidence"),
        ap \in SectionChoices("appraisal"), pr \in SectionChoices("programme") :
       input = [scheme |-> sc, planning |-> pl, technicalPack |-> tp,
                exitEvidence |-> ex, appraisal |-> ap, programme |-> pr]
  /\ bands \in BandsChoices
  /\ output = NoOutput
  /\ IdleDecide
  /\ IdleThreshold
  /\ IdleLog
  /\ IdleEngine

\* a deal whose metrics are derived
InitMetrics ==
  /\ \/ \E f \in MetricFinanceChoices, x \in MetricBuildChoices : input = MetricInput(f, x)
     \/ input \in MetricSectionChoices
  /\ bands = SME_MAINSTREAM_BANDS_V1
  /\ output = NoOutput
  /\ IdleDecide
  /\ IdleThreshold
  /\ IdleLog
  /\ IdleEngine

\* a run of calls of evaluate, none made yet
InitRepeat ==
  /\ IdleDecide
  /\ IdleEval
  /\ IdleThreshold
  /\ IdleLog
  /\ IdleEngine

\* new AssessmentEngine(rules) and a scheme to assess: the standard rules,
\* front to back or back to front, with every scheme, or a custom rule set
\* with the valid scheme
InitAssess ==
  /\ \/ /\ rules \in {smeRules, Reverse(smeRules)}
        /\ \E fin \in FinancialChoices, dev \in DevelopmentChoices,
              who \in DeveloperChoices, ai \in AiScoresChoices :
             scheme = MakeScheme(fin, dev, who, ai)
     \/ /\ \E n \in 0..MaxRules :
             \E k \in [1..n -> BOOLEAN \X OutcomeChoices] :
               rules = [i \in 1..n |-> CustomRule(i, k[i][1], k[i][2])]
        /\ scheme = VALID_SCHEME
  /\ assessment = NoAssessment
  /\ clock = 0
  /\ supplied = rules
  /\ returned = NoReturn
  /\ IdleDecide
  /\ IdleEval
  /\ IdleThreshold
  /\ IdleLog

\* one engine with the standard rules, no assessment made yet
InitAssessRepeat ==
  /\ rules = smeRules
  /\ supplied = rules
  /\ scheme = VALID_SCHEME
  /\ assessment = NoAssessment
  /\ clock = 0
  /\ returned = NoReturn
  /\ IdleDecide
  /\ IdleEval
  /\ IdleThreshold
  /\ IdleLog

\* new AssessmentEngine(rules): this.rules is the array supplied
InitAccessors ==
  /\ rules \in AccessorRuleSets
  /\ supplied = rules
  /\ scheme \in {VALID_SCHEME, [VALID_SCHEME EXCEPT !.financials.equity = Num(20, 1)]}
  /\ assessment = NoAssessment
  /\ clock = 0
  /\ returned = NoReturn
  /\ IdleDecide
  /\ IdleEval
  /\ IdleThreshold
  /\ IdleLog

Init == InitDecide \/ InitEval \/ InitThreshold \/ InitAssess \/ InitMetrics

\* every behaviour makes one call on the arguments it starts with
NoCallYet ==
  /\ decision.call = "none" /\ output.call = "none" /\ thResult.call = "none"
  /\ assessment.call = "none" /\ log = << >>

\* decide(failures)
Decide ==
  /\ NoCallYet
  /\ decision' = [call |-> "decide", verdict |-> decide(failures).verdict,
                  status |-> decide(failures).status]
  /\ UNCHANGED <<failures, input, bands, output, thValue, thLimit, thResult,
               log, rules, scheme, assessment, clock,
                 supplied, returned>>

\* evaluate(input, bands)
Evaluate ==
  /\ NoCallYet
  /\ output' = [call |-> "evaluate", result |-> evaluate(input, bands),
                debug |-> Undefined]
  /\ UNCHANGED <<failures, decision, input, bands, thValue, thLimit, thResult,
               log, rules, scheme, assessment, clock,
                 supplied, returned>>

\* evaluateDetailed(input, bands)
EvaluateDetailed ==
  /\ NoCallYet
  /\ output' = [call |-> "evaluateDetailed",
                result |-> evaluateDetailed(input, bands).result,
                debug |-> evaluateDetailed(input, bands).debug]
  /\ UNCHANGED <<failures, decision, input, bands, thValue, thLimit, thResult,
               log, rules, scheme, assessment, clock,
                 supplied, returned>>

\* the context of a threshold rule reading metrics.margin_on_cost
ThresholdCtx == [metrics |-> [margin_on_cost |-> thValue]]

\* thresholdMin(ctx, 'metrics.margin_on_cost', thLimit, meta)
ThresholdMin ==
  /\ NoCallYet
  /\ thResult' = [call |-> "thresholdMin",
                  ret |-> thresholdMin(ThresholdCtx, <<"metrics", "margin_on_cost">>,
                                       thLimit, FIN014)]
  /\ UNCHANGED <<failures, decision, input, bands, output, thValue, thLimit,
               log, rules, scheme, assessment, clock,
                 supplied, returned>>

\* thresholdMax(ctx, 'metrics.margin_on_cost', thLimit, meta)
ThresholdMax ==
  /\ NoCallYet
  /\ thResult' = [call |-> "thresholdMax",
                  ret |-> thresholdMax(ThresholdCtx, <<"metrics", "margin_on_cost">>,
                                       thLimit, FIN030)]
  /\ UNCHANGED <<failures, decision, input, bands, output, thValue, thLimit,
               log, rules, scheme, assessment, clock,
                 supplied, returned>>

\* one more call evaluate(i, b) in a run of calls: the arguments and the
\* result are kept in the log
CallEvaluate ==
  /\ Len(log) < MaxCalls
  /\ \E i \in RepeatInputs, b \in BandsChoices :
       /\ input' = i
       /\ bands' = b
       /\ output' = [call |-> "evaluate", result |-> evaluate(i, b), debug |-> Undefined]
       /\ log' = Append(log, [input |-> i, bands |-> b, result |-> evaluate(i, b)])
  /\ UNCHANGED <<failures, decision, thValue, thLimit, thResult,
                 rules, scheme, assessment, clock,
                 supplied, returned>>

\* one more call evaluateDetailed(i, b) in a run of calls
CallEvaluateDetailed ==
  /\ Len(log) < MaxCalls
  /\ \E i \in RepeatInputs, b \in BandsChoices :
       /\ input' = i
       /\ bands' = b
       /\ output' = [call |-> "evaluateDetailed",
                     result |-> evaluateDetailed(i, b).result,
                     debug |-> evaluateDetailed(i, b).debug]
       /\ log' = Append(log, [input |-> i, bands |-> b,
                              result |-> evaluateDetailed(i, b).result])
  /\ UNCHANGED <<failures, decision, thValue, thLimit, thResult,
                 rules, scheme, assessment, clock,
                 supplied, returned>>

\* engine.assess(scheme)
Assess ==
  /\ NoCallYet
  /\ assessment' = [call |-> "assess", result |-> assess(rules, scheme, clock)]
  /\ UNCHANGED <<failures, decision, input, bands, output, thValue, thLimit, thResult,
                 log, rules, scheme, clock,
                 supplied, returned>>

\* computeMetrics(input)
ComputeMetrics ==
  /\ NoCallYet
  /\ output' = [call |-> "computeMetrics", result |-> NoOutput.result,
                debug |-> [metrics |-> computeMetrics(input)]]
  /\ UNCHANGED <<failures, decision, input, bands, thValue, thLimit, thResult,
                 log, rules, scheme, assessment, clock,
                 supplied, returned>>

NextMetrics == ComputeMetrics

\* decide(failures) of the older implementation
DecideOlder ==
  /\ NoCallYet
  /\ decision' = [call |-> "decideOlder", verdict |-> decideOlder(failures).verdict,
                  status |-> decideOlder(failures).status,
                  failures |-> decideOlder(failures).failures]
  /\ UNCHANGED <<failures, input, bands, output, thValue, thLimit, thResult,
                 log, rules, scheme, assessment, clock,
                 supplied, returned>>

NextDecideBoth == Decide \/ DecideOlder

\* one more call engine.assess(s) in a run of calls on one engine: the
\* scheme and the result are kept in the log, and time may pass
CallAssess ==
  /\ Len(log) < MaxCalls
  /\ \E s \in RepeatSchemes :
       /\ scheme' = s
       /\ assessment' = [call |-> "assess", result |-> assess(rules, s, clock)]
       /\ log' = Append(log, [scheme |-> s, result |-> assess(rules, s, clock)])
  /\ \E dt \in {0, 1} : clock' = clock + dt
  /\ UNCHANGED <<failures, decision, input, bands, output, thValue, thLimit, thResult,
                 rules, supplied, returned>>

NextAssessRepeat == CallAssess

\* engine.getRules(): the caller holds the array handed out
GetRules ==
  /\ returned' = [call |-> "getRules", category |-> "none",
                  items |-> getRules(rules).items,
                  sameArray |-> getRules(rules).sameArray, mutations |-> 0]
  /\ UNCHANGED <<failures, decision, input, bands, output, thValue, thLimit, thResult,
                 log, rules, scheme, assessment, clock, supplied>>

\* engine.getRulesByCategory(c)
GetRulesByCategory ==
  /\ \E c \in Categories :
       returned' = [call |-> "getRulesByCategory", category |-> c,
                    items |-> getRulesByCategory(rules, c).items,
                    sameArray |-> getRulesByCategory(rules, c).sameArray,
                    mutations |-> 0]
  /\ UNCHANGED <<failures, decision, input, bands, output, thValue, thLimit, thResult,
                 log, rules, scheme, assessment, clock, supplied>>

\* the array m changed as the caller changes it
Mutated(m, items) ==
  CASE m = "pop" -> SubSeq(items, 1, Len(items) - 1)
    [] m = "push" -> Append(items, CustomRule(1, TRUE, "CRITICAL"))
    [] m = "reverse" -> Reverse(items)

\* the caller changes the array it was handed; when that array is this.rules
\* itself the engine's rules change with it
MutateReturned ==
  /\ returned.call # "none"
  /\ returned.mutations < MaxMutations
  /\ \E m \in ArrayMutations :
       /\ m = "pop" => returned.items # << >>
       /\ returned' = [returned EXCEPT !.items = Mutated(m, returned.items),
                                       !.mutations = @ + 1]
       /\ rules' = IF returned.sameArray THEN Mutated(m, returned.items) ELSE rules
  /\ UNCHANGED <<failures, decision, input, bands, output, thValue, thLimit, thResult,
                 log, scheme, assessment, clock, supplied>>

NextAccessors == Assess \/ GetRules \/ GetRulesByCategory \/ MutateReturned

NextDecide == Decide

NextRepeat == CallEvaluate \/ CallEvaluateDetailed

NextAssess == Assess

NextEval == Evaluate \/ EvaluateDetailed

NextThreshold == ThresholdMin \/ ThresholdMax

\* decide called directly, or through evaluate and evaluateDetailed
InitVerdict == InitDecide \/ InitEval

NextVerdict == Decide \/ Evaluate \/ EvaluateDetailed

Next ==
  \/ Decide \/ Evaluate \/ EvaluateDetailed \/ ThresholdMin \/ ThresholdMax
  \/ CallEvaluate \/ CallEvaluateDetailed \/ Assess \/ ComputeMetrics
  \/ DecideOlder \/ CallAssess \/ GetRules \/ GetRulesByCategory \/ MutateReturned

SpecDecide == InitDecide /\ [][NextDecide]_vars

SpecEval == InitEval /\ [][NextEval]_vars

SpecThreshold == InitThreshold /\ [][NextThreshold]_vars

SpecVerdict == InitVerdict /\ [][NextVerdict]_vars

SpecDefects == InitDefects /\ [][NextEval]_vars

SpecDecideBoth == InitDecide /\ [][NextDecideBoth]_vars

SpecAssessRepeat == InitAssessRepeat /\ [][NextAssessRepeat]_vars

SpecAccessors == InitAccessors /\ [][NextAccessors]_vars

SpecMetrics == InitMetrics /\ [][NextMetrics]_vars

SpecRepeat == InitRepeat /\ [][NextRepeat]_vars

SpecAssess == InitAssess /\ [][NextAssess]_vars

Spec == Init /\ [][Next]_vars

(***************************************************************************)
(* Vocabulary of the properties                                            *)
(***************************************************************************)
\* the value of input.<section>.<key>, undefined when either is absent
Field(section, key) == Opt(input[section], key)

\* a numeric field as an integer amount, an absent one as zero
Amount(section, key) ==
  IF Field(section, key).t = "num" THEN Field(section, key).n ELSE 0

Called == output.call \in {"evaluate", "evaluateDetailed"}

HasFailure(id) ==
  \E i \in DOMAIN output.result.failures : output.result.failures[i].ruleId = id

PlanningSufficient ==
  \/ Field("planning", "stage") \in {Str("OUTLINE"), Str("FULL")}
  \/ Field("planning", "stage") = Str("PIP") /\ Field("planning", "hasTdc") = True

PlanningInsufficient ==
  \/ Field("planning", "stage") \in {Undefined, Str("NONE"), Str("PRE_APP")}
  \/ Field("planning", "stage") = Str("PIP") /\ Field("planning", "hasTdc") # True

TechnicalPackIncomplete ==
  \/ Field("technicalPack", "hasCostPlan") # True
  \/ Field("technicalPack", "hasWorkingDrawings") # True
  \/ Field("technicalPack", "buildRegsStage") \in {Undefined, Str("NONE"), Str("IN_PROGRESS")}
  \/ /\ Field("technicalPack", "miningRiskArea") = True
     /\ Field("technicalPack", "hasMiningSurvey") # True

ExitEvidenceMissing ==
  /\ Field("exitEvidence", "hasAgentAppraisal") # True
  /\ Field("exitEvidence", "hasComparableEvidence") # True

GatingSatisfied ==
  PlanningSufficient /\ ~TechnicalPackIncomplete /\ ~ExitEvidenceMissing

\* num / den >= lim, num / den <= lim and their negations, for den > 0
RatioGe(num, den, lim) == den > 0 /\ num * lim.d >= lim.n * den

RatioLe(num, den, lim) == den > 0 /\ num * lim.d <= lim.n * den

RatioLt(num, den, lim) == den > 0 /\ num * lim.d < lim.n * den

RatioGt(num, den, lim) == den > 0 /\ num * lim.d > lim.n * den

Gdv == Amount("appraisal", "gdv")

TotalCost == Amount("appraisal", "total_cost")

Loan == Amount("appraisal", "total_cost") - Amount("appraisal", "equity")

MarginBelow == RatioLt(Gdv - TotalCost, TotalCost, bands.min_margin_on_cost)

LtgdvAbove == RatioGt(Loan, Gdv, bands.max_ltgdv)

LtcAbove == RatioGt(Loan, TotalCost, bands.max_ltc)

ContingencyBelow ==
  RatioLt(Amount("appraisal", "contingency"), Amount("appraisal", "build_cost"),
          bands.min_contingency_pct)

FatalMetricsWithin ==
  /\ RatioGe(Gdv - TotalCost, TotalCost, bands.min_margin_on_cost)
  /\ RatioLe(Loan, Gdv, bands.max_ltgdv)
  /\ RatioLe(Loan, TotalCost, bands.max_ltc)

ContingencyWithin ==
  RatioGe(Amount("appraisal", "contingency"), Amount("appraisal", "build_cost"),
          bands.min_contingency_pct)

PaceWithin ==
  RatioLe(Amount("programme", "build_months"), Amount("scheme", "units"),
          bands.max_build_months_per_unit)

(***************************************************************************)
(* Properties of decide                                                    *)
(***************************************************************************)
PrecedenceStatus(fs) ==
  IF \E i \in DOMAIN fs : fs[i].status = "GATING" THEN "GATING"
  ELSE IF \E i \in DOMAIN fs : fs[i].severity = "FATAL" THEN "FATAL"
  ELSE IF \E i \in DOMAIN fs : fs[i].severity = "FIXABLE" THEN "FIXABLE"
  ELSE "PASS"

Reorderings(fs) ==
  {[i \in DOMAIN fs |-> fs[p[i]]] : p \in Permutations(DOMAIN fs)}

\* C1: decide returns GATING if some failure carries the workflow status
\* GATING, otherwise FATAL if some failure has severity FATAL, otherwise
\* FIXABLE if some failure has severity FIXABLE, otherwise PASS; and every
\* reordering of the list gets the same status.
C1_DecidePrecedence ==
  decision.call = "decide" =>
    /\ decision.status = PrecedenceStatus(failures)
    /\ \A q \in Reorderings(failures) : decide(q).status = decision.status

\* a FATAL failure placed before a GATING-tagged FIXABLE one: GATING wins
C1_Witness ==
  /\ decision.call = "decide"
  /\ Len(failures) >= 2
  /\ failures[1].severity = "FATAL" /\ failures[1].status = "undefined"
  /\ failures[2].severity = "FIXABLE" /\ failures[2].status = "GATING"
  /\ decision.status = "GATING"

\* C2: the verdict is MEETS_SME_LENDER_CRITERIA exactly when the status is
\* PASS, and NOT_YET_LENDABLE for FIXABLE, FATAL and GATING, in what decide
\* returns and in every result of evaluate and evaluateDetailed.
C2_VerdictIffPass ==
  /\ decision.call = "decide" =>
       /\ decision.status \in {"PASS", "FIXABLE", "FATAL", "GATING"}
       /\ decision.verdict = "MEETS_SME_LENDER_CRITERIA" <=> decision.status = "PASS"
       /\ decision.status # "PASS" => decision.verdict = "NOT_YET_LENDABLE"
  /\ Called =>
       /\ output.result.verdict = "MEETS_SME_LENDER_CRITERIA"
            <=> output.result.status = "PASS"
       /\ output.result.status # "PASS" => output.result.verdict = "NOT_YET_LENDABLE"

\* decide on a non-empty list without severities: PASS, and the verdict follows
C2_Witness ==
  /\ decision.call = "decide"
  /\ Len(failures) > 0
  /\ decision.status = "PASS"
  /\ decision.verdict = "MEETS_SME_LENDER_CRITERIA"

(***************************************************************************)
(* Properties of evaluate                                                  *)
(***************************************************************************)
\* C3: whenever evaluate or evaluateDetailed returns status PASS, the
\* failure list it returns is empty.
C3_PassHasNoFailures ==
  Called /\ output.result.status = "PASS" => Len(output.result.failures) = 0

\* C4: sufficient planning stage, complete technical pack and exit evidence
\* and all five metrics within the bands give PASS, the verdict
\* MEETS_SME_LENDER_CRITERIA and a failure list of length 0.
C4_CompliantDealPasses ==
  Called /\ GatingSatisfied /\ FatalMetricsWithin /\ ContingencyWithin /\ PaceWithin =>
    /\ output.result.status = "PASS"
    /\ output.result.verdict = "MEETS_SME_LENDER_CRITERIA"
    /\ Len(output.result.failures) = 0

\* C5: an absent, NONE or PRE_APP planning stage, or PIP without hasTdc,
\* gives status GATING, verdict NOT_YET_LENDABLE and a failure with ruleId
\* PREREQ_PLANNING_STAGE in the list, whatever the metrics are.
C5_PlanningGates ==
  Called /\ PlanningInsufficient =>
    /\ output.result.status = "GATING"
    /\ output.result.verdict = "NOT_YET_LENDABLE"
    /\ HasFailure("PREREQ_PLANNING_STAGE")

\* C6: an incomplete technical pack gives status GATING, verdict
\* NOT_YET_LENDABLE and a failure with ruleId PREREQ_TECHNICAL_PACK.
C6_TechnicalPackGates ==
  Called /\ TechnicalPackIncomplete =>
    /\ output.result.status = "GATING"
    /\ output.result.verdict = "NOT_YET_LENDABLE"
    /\ HasFailure("PREREQ_TECHNICAL_PACK")

\* C7: without agent appraisal and comparable evidence the status is GATING,
\* the verdict NOT_YET_LENDABLE and PREREQ_EXIT_EVIDENCE is in the list; with
\* an agent appraisal and every other prerequisite the status is not GATING.
C7_ExitEvidenceGates ==
  /\ Called /\ ExitEvidenceMissing =>
       /\ output.result.status = "GATING"
       /\ output.result.verdict = "NOT_YET_LENDABLE"
       /\ HasFailure("PREREQ_EXIT_EVIDENCE")
  /\ Called /\ Field("exitEvidence", "hasAgentAppraisal") = True
       /\ PlanningSufficient /\ ~TechnicalPackIncomplete =>
       output.result.status # "GATING"

\* C8: with the gating prerequisites satisfied, a margin on cost below the
\* minimum, an ltgdv above its maximum or an ltc above its maximum gives
\* status FATAL, verdict NOT_YET_LENDABLE, and the list holds FIN-014,
\* FIN-030, FIN-031 for each of the three that is violated.
C8_FatalMetrics ==
  Called /\ GatingSatisfied /\ (MarginBelow \/ LtgdvAbove \/ LtcAbove) =>
    /\ output.result.status = "FATAL"
    /\ output.result.verdict = "NOT_YET_LENDABLE"
    /\ MarginBelow => HasFailure("FIN-014")
    /\ LtgdvAbove => HasFailure("FIN-030")
    /\ LtcAbove => HasFailure("FIN-031")

\* the equity of the base deal reduced until ltgdv alone leaves its band
C8_Witness ==
  /\ output.call = "evaluate"
  /\ GatingSatisfied
  /\ LtgdvAbove /\ ~LtcAbove /\ ~MarginBelow
  /\ Amount("appraisal", "equity") < BASE_INPUT.appraisal.equity.n
  /\ output.result.status = "FATAL"
  /\ HasFailure("FIN-030")

\* C9: with the gating prerequisites satisfied and margin, ltgdv, ltc and
\* build pace within the bands, a contingency below the minimum gives status
\* FIXABLE, verdict NOT_YET_LENDABLE and exactly one failure, FIN-021.
C9_ContingencyFixable ==
  Called /\ GatingSatisfied /\ FatalMetricsWithin /\ PaceWithin /\ ContingencyBelow =>
    /\ output.result.status = "FIXABLE"
    /\ output.result.verdict = "NOT_YET_LENDABLE"
    /\ Len(output.result.failures) = 1
    /\ output.result.failures[1].ruleId = "FIN-021"

(***************************************************************************)
(* Properties of the threshold predicates                                  *)
(***************************************************************************)
\* C10: thresholdMin returns no failure exactly when the value is a number
\* and value >= limit, thresholdMax exactly when it is a number and
\* value <= limit; null, undefined and other non-numbers always fail.
C10_ThresholdBoundary ==
  /\ thResult.call = "thresholdMin" =>
       (thResult.ret = Null
          <=> thValue.t = "num" /\ thValue.n * thLimit.d >= thLimit.n * thValue.d)
  /\ thResult.call = "thresholdMax" =>
       (thResult.ret = Null
          <=> thValue.t = "num" /\ thValue.n * thLimit.d <= thLimit.n * thValue.d)
  /\ thResult.call # "none" /\ thValue.t \notin {"num", "nan"} =>
       thResult.ret # Null /\ thResult.ret.evidence[1][2] = thValue

\* a value equal to the limit has passed thresholdMin
C10_Witness ==
  /\ thResult.call = "thresholdMin"
  /\ thValue.t = "num"
  /\ thValue.n * thLimit.d = thLimit.n * thValue.d
  /\ thValue.n > 0
  /\ thResult.ret = Null

(***************************************************************************)
(* Properties of the evaluator: degenerate and defective inputs            *)
(***************************************************************************)
\* the metrics evaluateDetailed reports next to its result
DebugMetrics == output.debug.metrics

\* C11: a deal whose total_cost is 0 gets margin_on_cost = null and
\* ltc = null from the metric deriver, and the evaluator returns a result that
\* lists FIN-014 and FIN-031 and whose status is not PASS; likewise each
\* metric whose denominator is 0 (gdv, build_cost, units) is null and the
\* threshold rule reading it (FIN-030, FIN-021, PRG-010) is in the list
C11_ZeroDenominator ==
  Called =>
    /\ TotalCost = 0 =>
         /\ HasFailure("FIN-014") /\ HasFailure("FIN-031")
         /\ output.result.status # "PASS"
         /\ output.result.verdict = "NOT_YET_LENDABLE"
         /\ output.call = "evaluateDetailed" =>
              DebugMetrics.margin_on_cost = Null /\ DebugMetrics.ltc = Null
    /\ Gdv = 0 =>
         /\ HasFailure("FIN-030")
         /\ output.call = "evaluateDetailed" =>
              DebugMetrics.ltgdv = Null /\ DebugMetrics.margin_on_gdv = Null
    /\ Amount("appraisal", "build_cost") = 0 =>
         /\ HasFailure("FIN-021")
         /\ output.call = "evaluateDetailed" => DebugMetrics.contingency_pct = Null
    /\ Amount("scheme", "units") = 0 =>
         /\ HasFailure("PRG-010")
         /\ output.call = "evaluateDetailed" =>
              DebugMetrics.build_months_per_unit = Null

\* evaluateDetailed has answered for a deal with total_cost 0 and a positive
\* gdv: the two metrics over total_cost are null, both of their rules failed
C11_Witness ==
  /\ output.call = "evaluateDetailed"
  /\ TotalCost = 0 /\ Gdv > 0
  /\ DebugMetrics.margin_on_cost = Null /\ DebugMetrics.ltc = Null
  /\ HasFailure("FIN-014") /\ HasFailure("FIN-031")
  /\ ~HasFailure("FIN-030")

PaceAbove ==
  RatioGt(Amount("programme", "build_months"), Amount("scheme", "units"),
          bands.max_build_months_per_unit)

\* C12: the failure list holds a failure for every rule whose condition is
\* violated, gating, FATAL and FIXABLE alike: no rule is skipped because
\* another one failed (an insufficient planning stage, an ltgdv above its
\* ceiling and a contingency below its floor give all three failures)
C12_NoShortCircuit ==
  Called =>
    /\ PlanningInsufficient => HasFailure("PREREQ_PLANNING_STAGE")
    /\ TechnicalPackIncomplete => HasFailure("PREREQ_TECHNICAL_PACK")
    /\ ExitEvidenceMissing => HasFailure("PREREQ_EXIT_EVIDENCE")
    /\ MarginBelow => HasFailure("FIN-014")
    /\ LtgdvAbove => HasFailure("FIN-030")
    /\ LtcAbove => HasFailure("FIN-031")
    /\ ContingencyBelow => HasFailure("FIN-021")
    /\ PaceAbove => HasFailure("PRG-010")

Sections == {"scheme", "planning", "technicalPack", "exitEvidence", "appraisal", "programme"}

\* C14: when any of the sections of the input is missing, null or
\* malformed, evaluate returns a result in which the defect shows as a rule
\* failure: the status is not PASS and the list holds a failure record
C14_DefectsAreFailures ==
  Called /\ (\E s \in Sections : input[s] # BASE_INPUT[s]) =>
    /\ output.result.status # "PASS"
    /\ \E i \in DOMAIN output.result.failures :
         output.result.failures[i].kind = "failure"

\* C15: every element of the failure list is a failure record with a
\* non-empty ruleId and a severity of FATAL or FIXABLE, for every input
C15_FailureRecords ==
  Called =>
    \A i \in DOMAIN output.result.failures :
      /\ output.result.failures[i].kind = "failure"
      /\ output.result.failures[i].ruleId \notin {"", "undefined"}
      /\ output.result.failures[i].severity \in {"FATAL", "FIXABLE"}

(***************************************************************************)
(* Properties of the assessment engine                                     *)
(***************************************************************************)
Assessed == assessment.call = "assess"

Fixes == assessment.result.fixes

StandardRules == rules \in {smeRules, Reverse(smeRules)}

\* rule i of the engine did not pass and attached a fix
FailedWithFix(i) ==
  /\ ~ruleEvaluate(rules[i], [scheme |-> scheme]).passed
  /\ ruleEvaluate(rules[i], [scheme |-> scheme]).fix # Undefined

HasFix(id) == \E i \in DOMAIN Fixes : Fixes[i].ruleId = id

\* C16: assess returns REJECTED exactly when a rule whose required flag is
\* true did not pass and attached a fix, and APPROVED otherwise; a failing
\* rule that is not required never causes REJECTED, severity plays no part
C16_VerdictByRequired ==
  Assessed =>
    /\ assessment.result.verdict \in {"APPROVED", "REJECTED"}
    /\ assessment.result.verdict = "REJECTED" <=>
         \E i \in DOMAIN rules : rules[i].required /\ FailedWithFix(i)

\* C17: the verdict is APPROVED exactly when the returned fix list is empty
\* and REJECTED exactly when it holds one or more fixes
C17_ApprovedIffNoFixes ==
  Assessed =>
    /\ assessment.result.verdict = "APPROVED" <=> Fixes = << >>
    /\ assessment.result.verdict = "REJECTED" <=> Len(Fixes) >= 1

Rank(severity) ==
  CASE severity = "CRITICAL" -> 1 [] severity = "MAJOR" -> 2 [] severity = "MINOR" -> 3

\* C18: in the returned fix list every CRITICAL fix comes before every
\* MAJOR fix and every MAJOR fix before every MINOR fix: no fix is followed
\* by one of a strictly higher severity
C18_FixesOrdered ==
  Assessed =>
    \A i, j \in DOMAIN Fixes :
      i < j => Rank(Fixes[i].severity) <= Rank(Fixes[j].severity)

\* a rule that attached a lower fix ran before one that attached a CRITICAL
\* fix, and the CRITICAL fix is the first of the returned list
C18_Witness ==
  /\ Assessed
  /\ \E i, j \in DOMAIN rules :
       /\ i < j
       /\ FailedWithFix(i) /\ FailedWithFix(j)
       /\ ruleEvaluate(rules[i], [scheme |-> scheme]).fix.severity \in {"MAJOR", "MINOR"}
       /\ ruleEvaluate(rules[j], [scheme |-> scheme]).fix.severity = "CRITICAL"
       /\ Fixes[1].ruleId = rules[j].id
       /\ Fixes[Len(Fixes)].ruleId = rules[i].id

Money(k) == scheme.financials[k].n

\* the scheme satisfies the nine standard rules other than DOC-001
OtherRulesSatisfied ==
  /\ Money("gdv") > 0 => Money("loanAmount") * 100 <= MAX_LTV_PERCENT * Money("gdv")
  /\ Money("totalCost") > 0 =>
       Money("loanAmount") * 100 <= MAX_LTC_PERCENT * Money("totalCost")
  /\ Money("totalCost") > 0
  /\ Money("equity") * 100 >= MIN_EQUITY_PERCENT * Money("totalCost")
  /\ Money("gdv") * 100 >= MIN_GDV_TO_COST_PERCENT * Money("totalCost")
  /\ scheme.developer.experienceYears.n >= MIN_DEVELOPER_EXPERIENCE_YEARS
  /\ scheme.developer.completedProjects.n >= MIN_COMPLETED_PROJECTS
  /\ scheme.developer.defaultHistory = False
  /\ scheme.development.constructionPeriod.n <= MAX_CONSTRUCTION_PERIOD_MONTHS
  /\ \/ scheme.development.units.n >= MIN_UNITS
     \/ scheme.development.squareFeet.n >= MIN_SQUARE_FEET

ScoreAbsent == Opt(scheme.aiScores, "documentQuality") = Undefined

\* C19: with the standard rules, a scheme without aiScores, or without a
\* documentQuality in them, gets no DOC-001 fix, and when it satisfies every
\* other rule it is APPROVED with an empty fix list and zero failed rules
C19_AbsentScorePasses ==
  Assessed /\ StandardRules /\ ScoreAbsent =>
    /\ ~HasFix("DOC-001")
    /\ OtherRulesSatisfied =>
         /\ assessment.result.verdict = "APPROVED"
         /\ Fixes = << >>
         /\ assessment.result.summary.failedRules = 0
         /\ assessment.result.summary.passedRules = Len(rules)

\* a scheme with aiScores present but no documentQuality, good in all else,
\* was assessed with the standard rules and approved without fixes
C19_Witness ==
  /\ Assessed /\ StandardRules
  /\ scheme.aiScores = [documentQuality |-> Undefined]
  /\ OtherRulesSatisfied
  /\ assessment.result.verdict = "APPROVED" /\ Fixes = << >>

\* the fixes of a list that are not the document quality fix
WithoutDoc(fixes) == SelectSeq(fixes, LAMBDA f : f.ruleId # "DOC-001")

Measured == output.call = "computeMetrics"

\* the seven source fields of the metrics
SourceFields ==
  {<<"appraisal", "gdv">>, <<"appraisal", "total_cost">>, <<"appraisal", "equity">>,
   <<"appraisal", "build_cost">>, <<"appraisal", "contingency">>,
   <<"scheme", "units">>, <<"programme", "build_months">>}

\* every source field is a number or absent
AllNumeric == \A f \in SourceFields : Field(f[1], f[2]).t \in {"undef", "num"}

\* the formula of each metric: numerator and denominator, absent fields
\* counted as zero
MetricRows ==
  {[name |-> "margin_on_cost", num |-> Gdv - TotalCost, den |-> TotalCost],
   [name |-> "margin_on_gdv", num |-> Gdv - TotalCost, den |-> Gdv],
   [name |-> "ltc", num |-> Loan, den |-> TotalCost],
   [name |-> "ltgdv", num |-> Loan, den |-> Gdv],
   [name |-> "contingency_pct", num |-> Amount("appraisal", "contingency"),
    den |-> Amount("appraisal", "build_cost")],
   [name |-> "build_months_per_unit", num |-> Amount("programme", "build_months"),
    den |-> Amount("scheme", "units")]}

\* the metric m is the number num / den
QuotientIs(m, num, den) == m.t = "num" /\ m.n * den = num * m.d

C24_NeverNaN ==
  Measured =>
    \A r \in MetricRows :
      DebugMetrics[r.name] = Null \/ DebugMetrics[r.name].t = "num"

(***************************************************************************)
(* Properties of the failure list                                          *)
(***************************************************************************)
\* the order in which the evaluator runs its rules
RuleOrder ==
  << "PREREQ_PLANNING_STAGE", "PREREQ_TECHNICAL_PACK", "PREREQ_EXIT_EVIDENCE",
     "FIN-014", "FIN-030", "FIN-031", "FIN-021", "PRG-010" >>

\* the place of a rule in the order, 0 for what is no rule of it
PlaceOf(id) ==
  IF \E k \in DOMAIN RuleOrder : RuleOrder[k] = id
  THEN CHOOSE k \in DOMAIN RuleOrder : RuleOrder[k] = id
  ELSE 0

ResultFailures == output.result.failures

\* C25: the failure list is a sub-sequence of the rule order: every entry
\* is a failure of one of the rules, entries follow the order gating, FATAL
\* (FIN-014, FIN-030, FIN-031), FIXABLE (FIN-021, PRG-010), a gating failure
\* that exists is the first entry, and no FATAL failure follows a FIXABLE
\* failure that is not gating
C25_FailureOrder ==
  Called =>
    /\ \A i \in DOMAIN ResultFailures : PlaceOf(ResultFailures[i].ruleId) > 0
    /\ \A i, j \in DOMAIN ResultFailures :
         i < j => PlaceOf(ResultFailures[i].ruleId) <= PlaceOf(ResultFailures[j].ruleId)
    /\ PlanningInsufficient =>
         ResultFailures # << >> /\ ResultFailures[1].status = "GATING"

\* the failure records of the result: the entries of the list and the
\* records held by an entry that is itself an array
AllFailures ==
  {ResultFailures[i] : i \in {k \in DOMAIN ResultFailures : ResultFailures[k].kind = "failure"}}
    \cup UNION {{ResultFailures[i].items[k] : k \in DOMAIN ResultFailures[i].items} :
                  i \in DOMAIN ResultFailures}

\* the metric a threshold rule reads
MetricOf(id) ==
  CASE id = "FIN-014" -> "margin_on_cost"
    [] id = "FIN-030" -> "ltgdv"
    [] id = "FIN-031" -> "ltc"
    [] id = "FIN-021" -> "contingency_pct"
    [] id = "PRG-010" -> "build_months_per_unit"

ThresholdIds == {"FIN-014", "FIN-030", "FIN-031", "FIN-021", "PRG-010"}

\* v is the value of the metric: null without a positive denominator, the
\* quotient of its formula otherwise
IsMetricValue(v, name) ==
  \E r \in MetricRows :
    /\ r.name = name
    /\ IF r.den > 0 THEN QuotientIs(v, r.num, r.den) ELSE v = Null

Decided == decision.call \in {"decide", "decideOlder"}

\* what the implementation that was not called returns for the same list
OtherDecision ==
  IF decision.call = "decide" THEN decideOlder(failures) ELSE decide(failures)

\* what the older implementation returned or returns for the list
OlderStatus ==
  IF decision.call = "decideOlder" THEN decision.status ELSE decideOlder(failures).status

HasGating == \E i \in DOMAIN failures : failures[i].status = "GATING"

HasFatal == \E i \in DOMAIN failures : failures[i].severity = "FATAL"

\* C29: the decide with the GATING branch and the older decide return the
\* same verdict for every failure list and the same status for every list
\* without a GATING-tagged failure; on a list with one they differ, the
\* older one answering FATAL or FIXABLE by severity
C29_DecideVariants ==
  Decided =>
    /\ decision.verdict = OtherDecision.verdict
    /\ ~HasGating => decision.status = OtherDecision.status
    /\ HasGating =>
         /\ decision.status # OtherDecision.status
         /\ OlderStatus = IF HasFatal THEN "FATAL" ELSE "FIXABLE"

\* the older decide was given a list with a GATING-tagged FIXABLE failure
\* and no FATAL one: it answered FIXABLE where the other answers GATING
C29_Witness ==
  /\ decision.call = "decideOlder"
  /\ HasGating /\ ~HasFatal
  /\ decision.status = "FIXABLE"
  /\ decide(failures).status = "GATING"
  /\ decision.verdict = "NOT_YET_LENDABLE"

(***************************************************************************)
(* Properties of the assessment engine: completeness, limits and counts    *)
(***************************************************************************)
FixesOf(id) == {k \in DOMAIN Fixes : Fixes[k].ruleId = id}

RulesFailedWithFix == {i \in DOMAIN rules : FailedWithFix(i)}

BeyondLimit ==
  [r \in {"FIN-001", "FIN-002", "FIN-003", "FIN-004", "EXP-001", "EXP-002",
          "EXP-003", "DEV-001", "DEV-002"} |->
     CASE r = "FIN-001" -> Money("gdv") > 0 /\ Money("loanAmount") * 100 > 70 * Money("gdv")
       [] r = "FIN-002" ->
            Money("totalCost") > 0 /\ Money("loanAmount") * 100 > 75 * Money("totalCost")
       [] r = "FIN-003" ->
            ~(Money("totalCost") > 0 /\ Money("equity") * 100 >= 25 * Money("totalCost"))
       [] r = "FIN-004" ->
            ~(Money("totalCost") > 0 /\ Money("gdv") * 100 >= 120 * Money("totalCost"))
       [] r = "EXP-001" -> scheme.developer.experienceYears.n < 3
       [] r = "EXP-002" -> scheme.developer.completedProjects.n < 2
       [] r = "EXP-003" -> scheme.developer.defaultHistory = True
       [] r = "DEV-001" -> scheme.development.constructionPeriod.n > 24
       [] r = "DEV-002" ->
            scheme.development.units.n < 2 /\ scheme.development.squareFeet.n < 5000]

\* C28: every limit of the standard rules is inclusive: a rule attaches its
\* fix exactly when the scheme is beyond its limit (LTV above 70%, LTC above
\* 75%, equity below 25%, GDV below 120% of cost, experience below 3 years,
\* fewer than 2 projects, more than 24 months), never at the limit; and a
\* scheme beyond no limit, without a failing document score, is APPROVED
\* with an empty fix list
C28_InclusiveLimits ==
  Assessed /\ StandardRules =>
    /\ \A r \in DOMAIN BeyondLimit : HasFix(r) <=> BeyondLimit[r]
    /\ (\A r \in DOMAIN BeyondLimit : ~BeyondLimit[r]) /\ ~HasFix("DOC-001") =>
         assessment.result.verdict = "APPROVED" /\ Fixes = << >>

\* the scheme with equity 25%, LTC 75%, 3 years, 2 projects and 24 months
\* was assessed with the standard rules and approved without fixes
C28_Witness ==
  /\ Assessed /\ rules = smeRules
  /\ scheme = MakeScheme(<<100, 140, 25, 75>>, <<4, 8000, 24>>, <<3, 2, FALSE>>, Undefined)
  /\ assessment.result.verdict = "APPROVED"
  /\ Fixes = << >>

\* C30: summary.totalRules is the number of registered rules, passedRules +
\* failedRules = totalRules, the number of fixes is at most failedRules and
\* equal to it when every failing rule attaches a fix; the valid scheme has
\* failedRules = 0 and no fixes under the standard rules
C30_SummaryCounts ==
  Assessed =>
    LET summary == assessment.result.summary
        failing == {i \in DOMAIN rules : ~ruleEvaluate(rules[i], [scheme |-> scheme]).passed}
    IN /\ summary.totalRules = Len(rules)
       /\ summary.passedRules + summary.failedRules = summary.totalRules
       /\ summary.failedRules = Cardinality(failing)
       /\ Len(Fixes) <= summary.failedRules
       /\ (\A i \in failing : FailedWithFix(i)) => Len(Fixes) = summary.failedRules
       /\ StandardRules /\ scheme = VALID_SCHEME =>
            summary.failedRules = 0 /\ Fixes = << >>

\* a rule set with a rule that fails without a fix and one that fails with
\* one was assessed: one fix, two failed rules
C30_Witness ==
  /\ Assessed
  /\ Len(rules) = 3
  /\ assessment.result.summary.failedRules = 2
  /\ assessment.result.summary.passedRules = 1
  /\ Len(Fixes) = 1

RECURSIVE OfCategory(_, _)
OfCategory(s, c) ==
  IF s = << >> THEN << >>
  ELSE IF Head(s).category = c THEN << Head(s) >> \o OfCategory(Tail(s), c)
  ELSE OfCategory(Tail(s), c)

\* C21: after any sequence of assess, getRules and getRulesByCategory calls,
\* and of changes the caller makes to the arrays it was handed, the engine
\* holds the rules supplied at construction, getRules returns exactly those
\* in construction order, and getRulesByCategory(c) exactly the sub-sequence
\* of them whose category is c
C21_AccessorsFrame ==
  /\ rules = supplied
  /\ returned.call = "getRules" /\ returned.mutations = 0 => returned.items = supplied
  /\ returned.call = "getRulesByCategory" /\ returned.mutations = 0 =>
       returned.items = OfCategory(supplied, returned.category)

\* after an assessment the caller was handed the experience rules of the
\* standard set and changed the array twice: the engine's rules are as
\* supplied
C21_Witness ==
  /\ assessment.call = "assess"
  /\ supplied = smeRules
  /\ returned.call = "getRulesByCategory" /\ returned.category = "experience"
  /\ returned.mutations = 2
  /\ returned.items # OfCategory(supplied, "experience")
  /\ rules = smeRules

====
